---- MODULE Spec2Model ----
(***************************************************************************)
(* State machine of the FoodDetails screen (src/pages/FoodDetails).        *)
(*                                                                         *)
(* food, extras, isFavorite, foodQuantity are the four useState cells,     *)
(* cartTotal the useMemo value, routeId the id of routeParams.  Handlers   *)
(* run one at a time; a step is one handler, or one continuation of an     *)
(* await.  food is a function from the fields present on the object to     *)
(* their values, so that `delete` on the object held in state is visible.  *)
(* cartTotal is recomputed exactly by the steps that call a setter of one  *)
(* of its dependencies (setFood, setExtras, setFoodQuantity).              *)
(*                                                                         *)
(* net holds the requests handed to the API client and not yet answered,   *)
(* in issue order; loads[l] is the l-th run of loadFood.  The remote API   *)
(* and the currency formatter are collaborators outside the screen: a POST *)
(* of a record adds its id to the remote favorites (a record without id    *)
(* adds no item id), a DELETE removes the id, any request may fail.  The   *)
(* session ends when the order request succeeds and goBack unmounts the    *)
(* screen.  Money is kept in integer cents.                                *)
(*                                                                         *)
(* lastEv, prev, toggled and events are history variables: the last step,  *)
(* the local state before it, whether the user ever toggled, and the       *)
(* number of user events so far.                                           *)
(***************************************************************************)
EXTENDS Integers, Sequences, FiniteSets, TLC

VARIABLES food, extras, isFavorite, foodQuantity, cartTotal,
          routeId, mounted, loads, net, remoteFavs,
          lastEv, prev, toggled, events

vars == <<food, extras, isFavorite, foodQuantity, cartTotal,
          routeId, mounted, loads, net, remoteFavs,
          lastEv, prev, toggled, events>>

(* ------------------------------ bounds --------------------------------- *)
(* MaxEvents: user events (presses and route changes) of a session;        *)
(* MaxLoads: runs of the loading effect of a session.                      *)
MaxEvents == 2
MaxLoads == 2

(* --------------------------- remote catalog ---------------------------- *)
ItemIds == {1, 2}
ExtraIdInputs == {1, 2}
NoId == 0

FoodFields == {"id", "name", "description", "price", "image_url",
               "formattedPrice", "extras"}

ServerFood(id) ==
  IF id = 1
  THEN [id |-> 1, name |-> "food1", description |-> "desc1", price |-> 1000,
        image_url |-> "img1",
        extras |-> <<[id |-> 1, value |-> 200], [id |-> 2, value |-> 150]>>]
  ELSE [id |-> 2, name |-> "food2", description |-> "desc2", price |-> 550,
        image_url |-> "img2",
        extras |-> <<[id |-> 1, value |-> 100]>>]

(* ----------------------------- helpers --------------------------------- *)
EmptyFood == [f \in {} |-> 0]

Has(f, k) == k \in DOMAIN f

Delete(f, k) == [g \in (DOMAIN f) \ {k} |-> f[g]]

With(f, k, v) == [g \in (DOMAIN f) \cup {k} |-> IF g = k THEN v ELSE f[g]]

RemoveAt(s, i) == [j \in 1..(Len(s) - 1) |-> IF j < i THEN s[j] ELSE s[j + 1]]

TwoDigits(n) == IF n < 10 THEN "0" \o ToString(n) ELSE ToString(n)

formatValue(cents) ==
  ToString(cents \div 100) \o "." \o TwoDigits(cents % 100)

NaNText == "NaN"

RECURSIVE Reduce(_, _)
Reduce(es, accumulator) ==
  IF es = <<>> THEN accumulator
  ELSE Reduce(Tail(es), accumulator + Head(es).value * Head(es).quantity)

CartTotal_PriceOnly(es, f, q) ==
  IF Has(f, "price")
  THEN formatValue(Reduce(es, 0) + f["price"] * q)
  ELSE NaNText

CartTotal(es, f, q) ==
  IF Has(f, "price")
  THEN formatValue((Reduce(es, 0) + f["price"]) * q)
  ELSE NaNText

FormattedFood(data) == With(data, "formattedPrice", formatValue(data["price"]))

FormattedExtras(f) ==
  [i \in 1..Len(f["extras"]) |->
     [id |-> f["extras"][i].id, value |-> f["extras"][i].value, quantity |-> 0]]

FoodId(f) == IF Has(f, "id") THEN f["id"] ELSE NoId

Request(kind, load, id, body) ==
  [kind |-> kind, load |-> load, id |-> id, body |-> body]

IssueLoad_Both(l, id) ==
  <<Request("getFood", l, id, EmptyFood), Request("getFavs", l, NoId, EmptyFood)>>

IssueLoad(l, id) == <<Request("getFood", l, id, EmptyFood)>>

IdleLoad == [pc |-> "idle", id |-> NoId, favs |-> {}]

Ev(op, arg) == [op |-> op, arg |-> arg]

Snapshot == [fav |-> isFavorite, qty |-> foodQuantity, extras |-> extras]

Started == {l \in 1..MaxLoads : loads[l].pc # "idle"}

(* ------------------------------- Init ---------------------------------- *)
Init ==
  /\ food = EmptyFood
  /\ extras = <<>>
  /\ isFavorite = FALSE
  /\ foodQuantity = 1
  /\ cartTotal = CartTotal(<<>>, EmptyFood, 1)
  /\ routeId \in ItemIds
  /\ mounted = TRUE
  /\ loads = [l \in 1..MaxLoads |->
                IF l = 1 THEN [pc |-> "getFood", id |-> routeId, favs |-> {}]
                ELSE IdleLoad]
  /\ net = IssueLoad(1, routeId)
  /\ remoteFavs \in SUBSET ItemIds
  /\ lastEv = Ev("mount", 0)
  /\ prev = [fav |-> FALSE, qty |-> 1, extras |-> <<>>]
  /\ toggled = FALSE
  /\ events = 0

(* ------------------------- route parameter change ---------------------- *)
RouteChange(id) ==
  /\ mounted
  /\ events < MaxEvents
  /\ events' = events + 1
  /\ id # routeId
  /\ Cardinality(Started) < MaxLoads
  /\ LET l == Cardinality(Started) + 1 IN
       /\ loads' = [loads EXCEPT ![l] = [pc |-> "getFood", id |-> id, favs |-> {}]]
       /\ net' = net \o IssueLoad(l, id)
  /\ routeId' = id
  /\ lastEv' = Ev("route", 0)
  /\ prev' = Snapshot
  /\ UNCHANGED <<food, extras, isFavorite, foodQuantity, cartTotal, mounted,
                 remoteFavs, toggled>>

(* ------------------------------ loadFood ------------------------------- *)
loadFood_item(i, ok) ==
  /\ mounted
  /\ events' = events
  /\ i \in 1..Len(net)
  /\ net[i].kind = "getFood"
  /\ LET l == net[i].load
         formattedFood == FormattedFood(ServerFood(net[i].id))
         formattedExtras == FormattedExtras(formattedFood)
     IN
       IF ok
       THEN /\ food' = formattedFood
            /\ extras' = formattedExtras
            /\ cartTotal' = CartTotal(formattedExtras, formattedFood, foodQuantity)
            /\ loads' = [loads EXCEPT ![l].pc = "getFavs"]
            /\ net' = Append(RemoveAt(net, i), Request("getFavs", l, NoId, EmptyFood))
            /\ lastEv' = Ev("itemLoaded", 0)
       ELSE /\ loads' = [loads EXCEPT ![l].pc = "failed"]
            /\ net' = RemoveAt(net, i)
            /\ lastEv' = Ev("loadFailed", 0)
            /\ UNCHANGED <<food, extras, cartTotal>>
  /\ prev' = Snapshot
  /\ UNCHANGED <<isFavorite, foodQuantity, routeId, mounted, remoteFavs, toggled>>

ListFavorites(i, ok) ==
  /\ mounted
  /\ events' = events
  /\ i \in 1..Len(net)
  /\ net[i].kind = "getFavs"
  /\ LET l == net[i].load IN
       IF ok
       THEN /\ loads' = [loads EXCEPT ![l].pc = "favsResp", ![l].favs = remoteFavs]
            /\ lastEv' = Ev("favsServed", 0)
       ELSE /\ loads' = [loads EXCEPT ![l].pc = "failed"]
            /\ lastEv' = Ev("loadFailed", 0)
  /\ net' = RemoveAt(net, i)
  /\ prev' = Snapshot
  /\ UNCHANGED <<food, extras, isFavorite, foodQuantity, cartTotal, routeId,
                 mounted, remoteFavs, toggled>>

loadFood_favorites(l) ==
  /\ mounted
  /\ events' = events
  /\ l \in 1..MaxLoads
  /\ loads[l].pc = "favsResp"
  /\ LET favFound == loads[l].id \in loads[l].favs IN
       isFavorite' = IF favFound THEN TRUE ELSE isFavorite
  /\ loads' = [loads EXCEPT ![l].pc = "done", ![l].favs = {}]
  /\ lastEv' = Ev("favsLoaded", 0)
  /\ prev' = Snapshot
  /\ UNCHANGED <<food, extras, foodQuantity, cartTotal, routeId, mounted, net,
                 remoteFavs, toggled>>

(* --------------------------- quantity mutators ------------------------- *)
IncrementedExtras_All(es, id) ==
  [i \in 1..Len(es) |-> [es[i] EXCEPT !.quantity = es[i].quantity + 1]]

IncrementedExtras(es, id) ==
  [i \in 1..Len(es) |->
     IF es[i].id = id THEN [es[i] EXCEPT !.quantity = es[i].quantity + 1]
     ELSE es[i]]

DecrementedExtras_NoFloor(es, id) ==
  [i \in 1..Len(es) |->
     IF es[i].id = id THEN [es[i] EXCEPT !.quantity = es[i].quantity - 1]
     ELSE es[i]]

DecrementedExtras(es, id) ==
  [i \in 1..Len(es) |->
     IF es[i].id = id /\ es[i].quantity > 0
     THEN [es[i] EXCEPT !.quantity = es[i].quantity - 1]
     ELSE es[i]]

handleIncrementExtra(id) ==
  /\ mounted
  /\ events < MaxEvents
  /\ events' = events + 1
  /\ extras' = IncrementedExtras(extras, id)
  /\ cartTotal' = CartTotal(extras', food, foodQuantity)
  /\ lastEv' = Ev("incExtra", id)
  /\ prev' = Snapshot
  /\ UNCHANGED <<food, isFavorite, foodQuantity, routeId, mounted, loads, net,
                 remoteFavs, toggled>>

handleDecrementExtra(id) ==
  /\ mounted
  /\ events < MaxEvents
  /\ events' = events + 1
  /\ extras' = DecrementedExtras(extras, id)
  /\ cartTotal' = CartTotal(extras', food, foodQuantity)
  /\ lastEv' = Ev("decExtra", id)
  /\ prev' = Snapshot
  /\ UNCHANGED <<food, isFavorite, foodQuantity, routeId, mounted, loads, net,
                 remoteFavs, toggled>>

handleIncrementFood ==
  /\ mounted
  /\ events < MaxEvents
  /\ events' = events + 1
  /\ foodQuantity' = foodQuantity + 1
  /\ cartTotal' = CartTotal(extras, food, foodQuantity')
  /\ lastEv' = Ev("incFood", 0)
  /\ prev' = Snapshot
  /\ UNCHANGED <<food, extras, isFavorite, routeId, mounted, loads, net,
                 remoteFavs, toggled>>

DecrementedFood_NoFloor(q) == q - 1

DecrementedFood(q) == IF q = 1 THEN q ELSE q - 1

handleDecrementFood ==
  /\ mounted
  /\ events < MaxEvents
  /\ events' = events + 1
  /\ foodQuantity' = DecrementedFood(foodQuantity)
  /\ cartTotal' = CartTotal(extras, food, foodQuantity')
  /\ lastEv' = Ev("decFood", 0)
  /\ prev' = Snapshot
  /\ UNCHANGED <<food, extras, isFavorite, routeId, mounted, loads, net,
                 remoteFavs, toggled>>

(* ----------------------------- toggleFavorite -------------------------- *)
FavFood(f) == Delete(Delete(f, "extras"), "formattedPrice")

FavoriteRequest_AlwaysCreate(fav, favFood) == Request("postFav", 0, NoId, favFood)

FavoriteRequest(fav, favFood) ==
  IF ~fav
  THEN Request("postFav", 0, NoId, favFood)
  ELSE Request("delFav", 0, FoodId(favFood), EmptyFood)

toggleFavorite ==
  /\ mounted
  /\ events < MaxEvents
  /\ events' = events + 1
  /\ LET favFood == FavFood(food) IN
       /\ food' = favFood
       /\ net' = Append(net, FavoriteRequest(isFavorite, favFood))
       /\ isFavorite' = IF ~isFavorite THEN TRUE ELSE FALSE
  /\ lastEv' = Ev("toggle", 0)
  /\ prev' = Snapshot
  /\ toggled' = TRUE
  /\ UNCHANGED <<extras, foodQuantity, cartTotal, routeId, mounted, loads,
                 remoteFavs>>

(* ---------------------------- handleFinishOrder ------------------------ *)
OrderCompleted_WithQuantity(f) ==
  With(Delete(f, "formattedPrice"), "quantity", foodQuantity)

OrderCompleted(f) == Delete(f, "formattedPrice")

handleFinishOrder ==
  /\ mounted
  /\ events < MaxEvents
  /\ events' = events + 1
  /\ LET orderCompleted == OrderCompleted(food) IN
       /\ food' = orderCompleted
       /\ net' = Append(net, Request("postOrder", 0, NoId, orderCompleted))
  /\ lastEv' = Ev("submit", 0)
  /\ prev' = Snapshot
  /\ UNCHANGED <<extras, isFavorite, foodQuantity, cartTotal, routeId, mounted,
                 loads, remoteFavs, toggled>>

(* ------------------------- remote API, mutations ----------------------- *)
CreateFavorite(i, ok) ==
  /\ mounted
  /\ events' = events
  /\ i \in 1..Len(net)
  /\ net[i].kind = "postFav"
  /\ remoteFavs' = IF ok /\ Has(net[i].body, "id")
                   THEN remoteFavs \cup {net[i].body["id"]}
                   ELSE remoteFavs
  /\ net' = RemoveAt(net, i)
  /\ lastEv' = Ev(IF ok THEN "favCreated" ELSE "favFailed", 0)
  /\ prev' = Snapshot
  /\ UNCHANGED <<food, extras, isFavorite, foodQuantity, cartTotal, routeId,
                 mounted, loads, toggled>>

DeleteFavorite(i, ok) ==
  /\ mounted
  /\ events' = events
  /\ i \in 1..Len(net)
  /\ net[i].kind = "delFav"
  /\ remoteFavs' = IF ok THEN remoteFavs \ {net[i].id} ELSE remoteFavs
  /\ net' = RemoveAt(net, i)
  /\ lastEv' = Ev(IF ok THEN "favDeleted" ELSE "favFailed", 0)
  /\ prev' = Snapshot
  /\ UNCHANGED <<food, extras, isFavorite, foodQuantity, cartTotal, routeId,
                 mounted, loads, toggled>>

handleFinishOrder_done(i, ok) ==
  /\ mounted
  /\ events' = events
  /\ i \in 1..Len(net)
  /\ net[i].kind = "postOrder"
  /\ mounted' = IF ok THEN FALSE ELSE mounted
  /\ net' = RemoveAt(net, i)
  /\ lastEv' = Ev(IF ok THEN "goBack" ELSE "orderFailed", 0)
  /\ prev' = Snapshot
  /\ UNCHANGED <<food, extras, isFavorite, foodQuantity, cartTotal, routeId,
                 loads, remoteFavs, toggled>>

(* ----------------------------- specification --------------------------- *)
UserStep ==
  \/ \E id \in ItemIds : RouteChange(id)
  \/ \E id \in ExtraIdInputs : handleIncrementExtra(id)
  \/ \E id \in ExtraIdInputs : handleDecrementExtra(id)
  \/ handleIncrementFood
  \/ handleDecrementFood
  \/ toggleFavorite
  \/ handleFinishOrder

Next ==
  \/ UserStep
  \/ \E l \in 1..MaxLoads : loadFood_favorites(l)
  \/ \E i \in 1..Len(net), ok \in BOOLEAN : loadFood_item(i, ok)
  \/ \E i \in 1..Len(net), ok \in BOOLEAN : ListFavorites(i, ok)
  \/ \E i \in 1..Len(net), ok \in BOOLEAN : CreateFavorite(i, ok)
  \/ \E i \in 1..Len(net), ok \in BOOLEAN : DeleteFavorite(i, ok)
  \/ \E i \in 1..Len(net), ok \in BOOLEAN : handleFinishOrder_done(i, ok)

Spec == Init /\ [][Next]_vars

(* Every request succeeds, the server applies them in issue order, and the *)
(* user toggles only while an item is displayed.                           *)
toggleFavorite_displayed == Has(food, "id") /\ toggleFavorite

NextOrdered ==
  \/ \E id \in ItemIds : RouteChange(id)
  \/ \E id \in ExtraIdInputs : handleIncrementExtra(id)
  \/ \E id \in ExtraIdInputs : handleDecrementExtra(id)
  \/ handleIncrementFood
  \/ handleDecrementFood
  \/ toggleFavorite_displayed
  \/ handleFinishOrder
  \/ \E l \in 1..MaxLoads : loadFood_favorites(l)
  \/ loadFood_item(1, TRUE)
  \/ ListFavorites(1, TRUE)
  \/ CreateFavorite(1, TRUE)
  \/ DeleteFavorite(1, TRUE)
  \/ handleFinishOrder_done(1, TRUE)

SpecOrdered == Init /\ [][NextOrdered]_vars

(* =============================== claims ================================ *)
Perms(n) == {p \in [1..n -> 1..n] : \A i, j \in 1..n : p[i] = p[j] => i = j}

Permuted(es, p) == [i \in 1..Len(es) |-> es[p[i]]]

RECURSIVE SumFromRight(_)
SumFromRight(es) ==
  IF es = <<>> THEN 0
  ELSE es[Len(es)].value * es[Len(es)].quantity
       + SumFromRight(SubSeq(es, 1, Len(es) - 1))

Loaded == Has(food, "price")

LastRequest == net[Len(net)]

(* C1: once the item is loaded, the displayed total is the formatting of   *)
(* (sum of value * quantity over the extras + price) * item quantity of    *)
(* the current state, whatever order the extras are summed in.             *)
C1_TotalFromCurrentState ==
  Loaded =>
    \A p \in Perms(Len(extras)) :
      cartTotal = formatValue((SumFromRight(Permuted(extras, p)) + food["price"])
                              * foodQuantity)

C1_Witness ==
  /\ Loaded
  /\ Len(extras) = 2
  /\ extras[1].quantity = 1
  /\ extras[2].quantity = 0
  /\ foodQuantity = 2
  /\ lastEv.op = "incFood"
  /\ cartTotal = "24.00"

(* C2: the item quantity starts at 1 and stays >= 1; an increment adds     *)
(* exactly 1, a decrement subtracts exactly 1 above 1 and is a no-op at 1. *)
C2_ItemQuantity ==
  /\ foodQuantity >= 1
  /\ lastEv.op = "mount" => foodQuantity = 1
  /\ lastEv.op = "incFood" => foodQuantity = prev.qty + 1
  /\ lastEv.op = "decFood" =>
       foodQuantity = (IF prev.qty > 1 THEN prev.qty - 1 ELSE 1)

C2_Witness == lastEv.op = "decFood" /\ prev.qty = 1 /\ foodQuantity = 1

(* C3: every extra's quantity is >= 0; a load sets every quantity to 0 and *)
(* a decrement of an extra at 0 leaves it at 0.                            *)
C3_ExtraQuantity ==
  /\ \A i \in 1..Len(extras) : extras[i].quantity >= 0
  /\ lastEv.op = "itemLoaded" => \A i \in 1..Len(extras) : extras[i].quantity = 0
  /\ lastEv.op = "decExtra" =>
       \A i \in 1..Len(extras) :
         prev.extras[i].quantity = 0 => extras[i].quantity = 0

C3_Witness ==
  /\ lastEv.op = "decExtra"
  /\ \E i \in 1..Len(extras) :
       /\ extras[i].id = lastEv.arg
       /\ prev.extras[i].quantity = 0
       /\ extras[i].quantity = 0

(* C4: incrementExtra(id) / decrementExtra(id) change only the quantity of *)
(* the extras whose identifier is id (+1, or -1 when > 0); every other     *)
(* extra, the length and the order are unchanged; with an unknown id the   *)
(* whole sequence is unchanged.                                            *)
C4_ExtraFrame ==
  lastEv.op \in {"incExtra", "decExtra"} =>
    /\ Len(extras) = Len(prev.extras)
    /\ \A i \in 1..Len(extras) :
         /\ extras[i].id = prev.extras[i].id
         /\ extras[i].value = prev.extras[i].value
         /\ extras[i].id # lastEv.arg => extras[i] = prev.extras[i]
         /\ (extras[i].id = lastEv.arg /\ lastEv.op = "incExtra") =>
              extras[i].quantity = prev.extras[i].quantity + 1
         /\ (extras[i].id = lastEv.arg /\ lastEv.op = "decExtra") =>
              extras[i].quantity = (IF prev.extras[i].quantity > 0
                                    THEN prev.extras[i].quantity - 1
                                    ELSE prev.extras[i].quantity)
    /\ (\A i \in 1..Len(prev.extras) : prev.extras[i].id # lastEv.arg) =>
         extras = prev.extras

C4_Witness ==
  /\ lastEv = Ev("incExtra", 2)
  /\ Len(extras) = 2
  /\ prev.extras[1].quantity = 1
  /\ extras[1].quantity = 1
  /\ extras[2].quantity = 1

(* C5: a toggle flips the flag at once and issues exactly one request,     *)
(* create when the flag was NOT_FAVORITE and delete-by-id when it was      *)
(* FAVORITE; a failed request does not roll the flip back; two consecutive *)
(* toggles restore the flag.                                               *)
C5_Toggle ==
  [][/\ lastEv'.op = "toggle" =>
          /\ isFavorite' = ~isFavorite
          /\ Len(net') = Len(net) + 1
          /\ SubSeq(net', 1, Len(net)) = net
          /\ net'[Len(net')].kind = (IF isFavorite THEN "delFav" ELSE "postFav")
          /\ isFavorite => net'[Len(net')].id = FoodId(food)
     /\ lastEv'.op = "favFailed" => isFavorite' = isFavorite
     /\ (lastEv.op = "toggle" /\ lastEv'.op = "toggle") => isFavorite' = prev.fav
    ]_vars

C5_Witness ==
  /\ lastEv.op = "toggle"
  /\ prev.fav
  /\ ~isFavorite
  /\ LastRequest.kind = "delFav"
  /\ LastRequest.id \in ItemIds

(* C6: when a load completes and the user has not toggled, the flag is     *)
(* FAVORITE exactly when the load's identifier is in the favorites it got. *)
C6_FlagFromLoad ==
  [][\A l \in 1..MaxLoads :
       (loads[l].pc = "favsResp" /\ loads'[l].pc = "done" /\ ~toggled)
         => (isFavorite' <=> loads[l].id \in loads[l].favs)]_vars

(* C7 as stated: the create-order payload has no formatted price, no       *)
(* extras and no quantity.                                                 *)
C7_PayloadWithoutExtras ==
  \A i \in 1..Len(net) :
    net[i].kind = "postOrder" =>
      /\ ~Has(net[i].body, "formattedPrice")
      /\ ~Has(net[i].body, "extras")
      /\ ~Has(net[i].body, "quantity")

(* C7 amended: the payload is the held item record without the formatted   *)
(* price; it never carries the item quantity or the chosen extras          *)
(* quantities, and it carries the item's own extras list, as loaded,       *)
(* exactly when the held record still has one.                             *)
C7_PayloadIsHeldRecord ==
  [][lastEv'.op = "submit" =>
       LET body == net'[Len(net')].body IN
         /\ net'[Len(net')].kind = "postOrder"
         /\ DOMAIN body = (DOMAIN food) \ {"formattedPrice"}
         /\ \A k \in DOMAIN body : body[k] = food[k]
         /\ DOMAIN body \subseteq FoodFields
         /\ Has(body, "extras") =>
              /\ body["extras"] = ServerFood(body["id"]).extras
              /\ \A j \in 1..Len(body["extras"]) :
                   DOMAIN body["extras"][j] = {"id", "value"}
    ]_vars

C7_Witness ==
  /\ lastEv.op = "submit"
  /\ LastRequest.kind = "postOrder"
  /\ Has(LastRequest.body, "extras")
  /\ \E i \in 1..Len(extras) : extras[i].quantity > 0

(* C8 as stated: the favorites fetch of a load is issued together with its *)
(* item fetch, not after it.                                               *)
ItemFetchPending(l) ==
  \E i \in 1..Len(net) : net[i].kind = "getFood" /\ net[i].load = l

FavsFetchIssued(l) ==
  \/ \E i \in 1..Len(net) : net[i].kind = "getFavs" /\ net[i].load = l
  \/ loads[l].pc \in {"favsResp", "done"}

C8_FetchesConcurrent ==
  \A l \in 1..MaxLoads : ItemFetchPending(l) => FavsFetchIssued(l)

(* C8 amended: the favorites fetch of a load is issued only after its item *)
(* fetch has resolved, and the load sets the flag only after both have.    *)
C8_FetchesSequential ==
  /\ \A l \in 1..MaxLoads : FavsFetchIssued(l) => ~ItemFetchPending(l)
  /\ \A l \in 1..MaxLoads :
       loads[l].pc \in {"idle", "getFood"} => ~FavsFetchIssued(l)
  /\ (isFavorite /\ ~toggled) =>
       \E l \in 1..MaxLoads : loads[l].pc = "done" /\ ~ItemFetchPending(l)

C8_Witness ==
  /\ lastEv.op = "favsLoaded"
  /\ isFavorite
  /\ ~toggled
  /\ \A l \in 1..MaxLoads : ~ItemFetchPending(l)

(* C9: once loaded, the held item record changes only by a new load.       *)
C9_ItemImmutable ==
  [][(Has(food, "id") /\ lastEv'.op # "itemLoaded") => food' = food]_vars

(* C10: with every request succeeding and served in issue order, once the  *)
(* (single) load is complete and nothing is in flight the flag is FAVORITE *)
(* exactly when the held item's identifier is in the remote favorites.     *)
C10_FlagMatchesRemote ==
  (/\ Started = {1}
   /\ loads[1].pc = "done"
   /\ net = <<>>)
  => (isFavorite <=> FoodId(food) \in remoteFavs)
====
